---- MODULE Spec2Model ----
(***************************************************************************)
(* A model of interpreter.py: the lexer `lex`, the loop resolver           *)
(* `skip_loop`, the executor `parse_and_execute` and the part of `main`    *)
(* that connects them.  Indices are 0-based as in the Python source; a     *)
(* Python list l is a TLA+ sequence and l[i] is written At(l, i).          *)
(***************************************************************************)
EXTENDS Integers, Sequences, FiniteSets, TLC

\* ---------------------------------------------------------------- bounds
MaxSrcLen == 4      \* longest source text read from the script file
MaxMem == 2         \* largest tape length given with --memory_size
MaxOut == 2         \* most emissions of OUT instructions followed in one run

\* ------------------------------------------------------ program constants
CellMod == 256      \* the modulus of INCREMENT and DECREMENT

\* ------------------------------------------------------------ Python data
At(l, i) == l[i + 1]
Last(l) == l[Len(l)]
Front(l) == SubSeq(l, 1, Len(l) - 1)

\* A Python object held by a tape cell: an int, or the str input() returned.
\* A str is the sequence of the code points of its characters.
PyInt(n) == [ty |-> "int", n |-> n, s |-> <<>>]
PyStr(s) == [ty |-> "str", n |-> 0, s |-> s]

\* memory_state[ptr] == 0 in Python: a str never equals the int 0.
IsZero(v) == v.ty = "int" /\ v.n = 0

\* class Token
Token == {"SHIFT_LEFT", "SHIFT_RIGHT", "INCREMENT", "DECREMENT",
          "OUT", "IN", "START_LOOP", "END_LOOP"}

\* Mutant: the table with '+' and '-' exchanged.
ALLOWED_CHARS_Swapped ==
    [c \in {"<", ">", "+", "-", ".", ",", "[", "]"} |->
        CASE c = "<" -> "SHIFT_LEFT"
          [] c = ">" -> "SHIFT_RIGHT"
          [] c = "+" -> "DECREMENT"
          [] c = "-" -> "INCREMENT"
          [] c = "." -> "OUT"
          [] c = "," -> "IN"
          [] c = "[" -> "START_LOOP"
          [] c = "]" -> "END_LOOP"]

ALLOWED_CHARS ==
    [c \in {"<", ">", "+", "-", ".", ",", "[", "]"} |->
        CASE c = "<" -> "SHIFT_LEFT"
          [] c = ">" -> "SHIFT_RIGHT"
          [] c = "+" -> "INCREMENT"
          [] c = "-" -> "DECREMENT"
          [] c = "." -> "OUT"
          [] c = "," -> "IN"
          [] c = "[" -> "START_LOOP"
          [] c = "]" -> "END_LOOP"]

\* The characters a source text is drawn from: the eight instructions, the
\* newline and one character that is neither.
Alphabet == DOMAIN ALLOWED_CHARS \cup {"\n", "x"}

RECURSIVE SeqsUpTo(_, _)
SeqsUpTo(S, n) ==
    IF n = 0 THEN {<<>>}
    ELSE LET shorter == SeqsUpTo(S, n - 1)
         IN  shorter \cup {Append(t, c) : t \in {u \in shorter : Len(u) = n - 1}, c \in S}

Sources == SeqsUpTo(Alphabet, MaxSrcLen)

\* The lines input() can return: "\x00", "1", U+0100 and "12".
InputTexts == {<<0>>, <<49>>, <<256>>, <<49, 50>>}

VARIABLES
    pc,                 \* where the process is: "lex", "lex_error", "exec",
                        \* "in_read", "done", "exit1", "crash", "interrupted"
    raw,                \* lex: the source text
    idx,                \* lex: index of the next character of the for loop
    line_no,            \* lex
    open_bracket_stack, \* lex
    program,            \* lex
    lex_err,            \* the LexException raised by lex, if any
    token_stream,       \* parse_and_execute; <<>> until it is called
    memory_state,       \* parse_and_execute; <<>> until it is called
    print_as_nums,      \* parse_and_execute; FALSE until it is called
    ptr,                \* parse_and_execute
    loop_stack,         \* parse_and_execute
    ip,                 \* parse_and_execute
    line,               \* the str input() returned to the IN instruction at ip
    out,                \* what the process printed, in order
    dec_count,          \* observer: DECREMENT instructions executed so far,
                        \* counted only by DecrementCounted
    path,               \* main: what os.path.isfile says of the script path
                        \* and whether its last three characters are ".bf"
    runs                \* observer: the executor states of each run of the
                        \* script, written only by Observe and Rerun

lexvars == <<raw, idx, line_no, open_bracket_stack, program, lex_err>>
exevars == <<token_stream, memory_state, print_as_nums, ptr, loop_stack, ip, line>>
vars == <<pc, lexvars, exevars, out, dec_count, path, runs>>

NoError == [kind |-> "none", at |-> <<>>]
ValidPath == [isfile |-> TRUE, bf |-> TRUE]
Emit(kind, v) == [kind |-> kind, cell |-> v]
Notice(kind) == Emit(kind, PyInt(0))

mem_size == Len(memory_state)
instruction_length == Len(token_stream)

\* ------------------------------------------------------------------ main
\* main at the call lex(raw_text): the frame of lex holds the text read from
\* the script.  The variables of parse_and_execute are bound when it is
\* called; the tape length and the mode, which the command line fixes and
\* nothing reads before that call, are chosen there.
MainInit(src) ==
    /\ pc = "lex"
    /\ raw = src
    /\ idx = 0
    /\ line_no = 0
    /\ open_bracket_stack = <<>>
    /\ program = <<>>
    /\ lex_err = NoError
    /\ token_stream = <<>>
    /\ memory_state = <<>>
    /\ print_as_nums = FALSE
    /\ ptr = 0
    /\ loop_stack = <<>>
    /\ ip = 0
    /\ line = <<>>
    /\ out = <<>>
    /\ dec_count = 0
    /\ path = ValidPath
    /\ runs = <<>>

Init == \E src \in Sources : MainInit(src)

\* ------------------------------------------------------------------- lex
\* Mutant: every skipped character counts a line.
LexSkipCountsAll ==
    /\ pc = "lex" /\ idx < Len(raw)
    /\ At(raw, idx) \notin DOMAIN ALLOWED_CHARS
    /\ line_no' = line_no + 1
    /\ idx' = idx + 1
    /\ UNCHANGED <<pc, raw, open_bracket_stack, program, lex_err, exevars, out, dec_count, path, runs>>

\* A character outside ALLOWED_CHARS: skipped; a newline counts a line.
LexSkip ==
    /\ pc = "lex" /\ idx < Len(raw)
    /\ At(raw, idx) \notin DOMAIN ALLOWED_CHARS
    /\ line_no' = IF At(raw, idx) = "\n" THEN line_no + 1 ELSE line_no
    /\ idx' = idx + 1
    /\ UNCHANGED <<pc, raw, open_bracket_stack, program, lex_err, exevars, out, dec_count, path, runs>>

LexOpen ==
    /\ pc = "lex" /\ idx < Len(raw)
    /\ At(raw, idx) = "["
    /\ open_bracket_stack' = Append(open_bracket_stack, <<line_no, idx>>)
    /\ program' = Append(program, ALLOWED_CHARS[At(raw, idx)])
    /\ idx' = idx + 1
    /\ UNCHANGED <<pc, raw, line_no, lex_err, exevars, out, dec_count, path, runs>>

\* Mutant: a ']' leaves its '[' on the stack.
LexCloseNoPop ==
    /\ pc = "lex" /\ idx < Len(raw)
    /\ At(raw, idx) = "]"
    /\ open_bracket_stack # <<>>
    /\ program' = Append(program, ALLOWED_CHARS[At(raw, idx)])
    /\ idx' = idx + 1
    /\ UNCHANGED <<pc, raw, line_no, open_bracket_stack, lex_err, exevars, out, dec_count, path, runs>>

LexClose ==
    /\ pc = "lex" /\ idx < Len(raw)
    /\ At(raw, idx) = "]"
    /\ open_bracket_stack # <<>>
    /\ open_bracket_stack' = Front(open_bracket_stack)
    /\ program' = Append(program, ALLOWED_CHARS[At(raw, idx)])
    /\ idx' = idx + 1
    /\ UNCHANGED <<pc, raw, line_no, lex_err, exevars, out, dec_count, path, runs>>

\* pop() of the empty stack: IndexError, turned into a LexException.
LexCloseError ==
    /\ pc = "lex" /\ idx < Len(raw)
    /\ At(raw, idx) = "]"
    /\ open_bracket_stack = <<>>
    /\ lex_err' = [kind |-> "close", at |-> << <<line_no, idx>> >>]
    /\ pc' = "lex_error"
    /\ UNCHANGED <<raw, idx, line_no, open_bracket_stack, program, exevars, out, dec_count, path, runs>>

LexOther ==
    /\ pc = "lex" /\ idx < Len(raw)
    /\ At(raw, idx) \in DOMAIN ALLOWED_CHARS \ {"[", "]"}
    /\ program' = Append(program, ALLOWED_CHARS[At(raw, idx)])
    /\ idx' = idx + 1
    /\ UNCHANGED <<pc, raw, line_no, open_bracket_stack, lex_err, exevars, out, dec_count, path, runs>>

\* After the scan: brackets left open raise, naming every one of them.
LexEndError ==
    /\ pc = "lex" /\ idx = Len(raw)
    /\ open_bracket_stack # <<>>
    /\ lex_err' = [kind |-> "open", at |-> open_bracket_stack]
    /\ pc' = "lex_error"
    /\ UNCHANGED <<raw, idx, line_no, open_bracket_stack, program, exevars, out, dec_count, path, runs>>

\* lex returns program and its frame is gone; main calls
\* parse_and_execute(token_stream, mem_state, args.nums) with a zeroed tape of
\* one of the given lengths.
Call(ts, sizes) ==
    /\ \E size \in sizes, nums \in BOOLEAN :
          /\ memory_state' = [i \in 1 .. size |-> PyInt(0)]
          /\ print_as_nums' = nums
    /\ token_stream' = ts
    /\ raw' = <<>> /\ idx' = 0 /\ line_no' = 0
    /\ open_bracket_stack' = <<>> /\ program' = <<>>
    /\ pc' = "exec"
    /\ UNCHANGED <<lex_err, ptr, loop_stack, ip, line, out, dec_count, path, runs>>

\* Mutant: the check for brackets left open is missing.
LexReturnUnchecked ==
    /\ pc = "lex" /\ idx = Len(raw)
    /\ Call(program, 1 .. MaxMem)

LexReturn ==
    /\ pc = "lex" /\ idx = Len(raw)
    /\ open_bracket_stack = <<>>
    /\ Call(program, 1 .. MaxMem)

\* The same return, main calling with a tape of one cell.
LexReturnOneCell ==
    /\ pc = "lex" /\ idx = Len(raw)
    /\ open_bracket_stack = <<>>
    /\ Call(program, {1})

\* Mutant: the handler prints the message and goes on to the executor.
MainLexErrorNoExit ==
    /\ pc = "lex_error"
    /\ out' = Append(out, Notice("lex_error"))
    /\ token_stream' = program
    /\ memory_state' = <<PyInt(0)>>
    /\ pc' = "exec"
    /\ UNCHANGED <<lexvars, print_as_nums, ptr, loop_stack, ip, line, dec_count, path, runs>>

\* main: except LexException: print(e.msg); sys.exit(1)
MainLexError ==
    /\ pc = "lex_error"
    /\ out' = Append(out, Notice("lex_error"))
    /\ pc' = "exit1"
    /\ UNCHANGED <<lexvars, exevars, dec_count, path, runs>>

\* ------------------------------------------------------------- skip_loop
\* Mutant: a nested START_LOOP is not pushed.
RECURSIVE SkipScanNoPush(_, _, _)
SkipScanNoPush(i, stack, ts) ==
    IF stack = <<>> THEN i
    ELSE IF i + 1 >= Len(ts) THEN -1
    ELSE LET tok == At(ts, i + 1)
         IN  SkipScanNoPush(i + 1,
                            CASE tok = "END_LOOP" -> Front(stack)
                              [] OTHER -> stack,
                            ts)

\* The index skip_loop returns, or -1 when token_stream[ip] raises IndexError.
RECURSIVE SkipScan(_, _, _)
SkipScan(i, stack, ts) ==
    IF stack = <<>> THEN i
    ELSE IF i + 1 >= Len(ts) THEN -1
    ELSE LET tok == At(ts, i + 1)
         IN  SkipScan(i + 1,
                      CASE tok = "START_LOOP" -> Append(stack, i + 1)
                        [] tok = "END_LOOP" -> Front(stack)
                        [] OTHER -> stack,
                      ts)

\* Mutant: the first END_LOOP after i, whatever the nesting.
skip_loop_first_end(i, ts) ==
    IF \E j \in i + 1 .. Len(ts) - 1 : At(ts, j) = "END_LOOP"
    THEN CHOOSE j \in i + 1 .. Len(ts) - 1 :
            /\ At(ts, j) = "END_LOOP"
            /\ \A k \in i + 1 .. j - 1 : At(ts, k) # "END_LOOP"
    ELSE -1

skip_loop(i, ts) == SkipScan(i, <<i>>, ts)

\* ----------------------------------------------------- parse_and_execute
Running == pc = "exec" /\ ip < instruction_length
Cur == At(token_stream, ip)
Cell == At(memory_state, ptr)
SetCell(v) == [memory_state EXCEPT ![ptr + 1] = v]

\* Mutants: the modulus forgotten.
MoveLeftNoWrap(p, n) == p - 1
IncValueNoWrap(n) == n + 1

MoveLeft(p, n) == (p - 1) % n
MoveRight(p, n) == (p + 1) % n
IncValue(n) == (n + 1) % CellMod
DecValue(n) == (n - 1) % CellMod

ShiftLeft ==
    /\ Running /\ Cur = "SHIFT_LEFT"
    /\ ptr' = MoveLeft(ptr, mem_size)
    /\ ip' = ip + 1
    /\ UNCHANGED <<pc, lexvars, token_stream, memory_state, print_as_nums, loop_stack, line, out, dec_count, path, runs>>

ShiftRight ==
    /\ Running /\ Cur = "SHIFT_RIGHT"
    /\ ptr' = MoveRight(ptr, mem_size)
    /\ ip' = ip + 1
    /\ UNCHANGED <<pc, lexvars, token_stream, memory_state, print_as_nums, loop_stack, line, out, dec_count, path, runs>>

\* str + 1 raises TypeError, which nothing catches.
Increment ==
    /\ Running /\ Cur = "INCREMENT"
    /\ IF Cell.ty = "int"
       THEN /\ memory_state' = SetCell(PyInt(IncValue(Cell.n)))
            /\ ip' = ip + 1
            /\ UNCHANGED pc
       ELSE /\ pc' = "crash"
            /\ UNCHANGED <<memory_state, ip>>
    /\ UNCHANGED <<lexvars, token_stream, print_as_nums, ptr, loop_stack, line, out, dec_count, path, runs>>

\* The DECREMENT case, the observer left aside.
DecrementStep ==
    /\ Running /\ Cur = "DECREMENT"
    /\ IF Cell.ty = "int"
       THEN /\ memory_state' = SetCell(PyInt(DecValue(Cell.n)))
            /\ ip' = ip + 1
            /\ UNCHANGED pc
       ELSE /\ pc' = "crash"
            /\ UNCHANGED <<memory_state, ip>>
    /\ UNCHANGED <<lexvars, token_stream, print_as_nums, ptr, loop_stack, line, out, path, runs>>

Decrement == DecrementStep /\ UNCHANGED dec_count

\* The same step with the observer counting it.
DecrementCounted ==
    /\ DecrementStep
    /\ dec_count' = IF pc' = "exec" THEN dec_count + 1 ELSE dec_count

\* Mutant: only the character mode prints.
OutCharOnly ==
    /\ Running /\ Cur = "OUT"
    /\ Len(out) < MaxOut
    /\ out' = IF print_as_nums THEN out ELSE Append(out, Emit("chr", Cell))
    /\ ip' = ip + 1
    /\ UNCHANGED <<pc, lexvars, token_stream, memory_state, print_as_nums, ptr, loop_stack, line, dec_count, path, runs>>

\* print(chr(cell)) in character mode, print(cell) in numeric mode.
Out ==
    /\ Running /\ Cur = "OUT"
    /\ Len(out) < MaxOut
    /\ out' = Append(out, Emit(IF print_as_nums THEN "print" ELSE "chr", Cell))
    /\ ip' = ip + 1
    /\ UNCHANGED <<pc, lexvars, token_stream, memory_state, print_as_nums, ptr, loop_stack, line, dec_count, path, runs>>

\* The value the IN instruction stores for the line s that input() returned:
\* ord(s) in character mode, s itself in numeric mode.
InValue(nums, s) == IF nums THEN PyStr(s) ELSE PyInt(s[1])

\* ord(s) raises TypeError unless s is one character; numeric mode calls
\* nothing that could raise it.
InRaises(nums, s) == ~nums /\ Len(s) # 1

\* input(...) returns the line s.
InRead ==
    /\ Running /\ Cur = "IN"
    /\ \E s \in InputTexts : line' = s
    /\ pc' = "in_read"
    /\ UNCHANGED <<lexvars, token_stream, memory_state, print_as_nums, ptr, loop_stack, ip,
                   out, dec_count, path, runs>>

\* input() at the end of standard input raises EOFError, which nothing catches.
InEOF ==
    /\ Running /\ Cur = "IN"
    /\ pc' = "crash"
    /\ UNCHANGED <<lexvars, exevars, out, dec_count, path, runs>>

\* Mutant: the value goes to the first cell, whatever ptr is.
InStoreFirstCell ==
    /\ pc = "in_read"
    /\ ~InRaises(print_as_nums, line)
    /\ memory_state' = [memory_state EXCEPT ![1] = InValue(print_as_nums, line)]
    /\ line' = <<>>
    /\ ip' = ip + 1
    /\ pc' = "exec"
    /\ UNCHANGED <<lexvars, token_stream, print_as_nums, ptr, loop_stack, out, dec_count, path, runs>>

\* memory_state[ptr] = ...; ip += 1
InStore ==
    /\ pc = "in_read"
    /\ ~InRaises(print_as_nums, line)
    /\ memory_state' = SetCell(InValue(print_as_nums, line))
    /\ line' = <<>>
    /\ ip' = ip + 1
    /\ pc' = "exec"
    /\ UNCHANGED <<lexvars, token_stream, print_as_nums, ptr, loop_stack, out, dec_count, path, runs>>

\* except TypeError: print("Invalid character given, terminated"); sys.exit(1)
InInvalid ==
    /\ pc = "in_read"
    /\ InRaises(print_as_nums, line)
    /\ out' = Append(out, Notice("invalid_char"))
    /\ pc' = "exit1"
    /\ UNCHANGED <<lexvars, exevars, dec_count, path, runs>>

\* Mutant: the jump of a skipped loop lands one token too far.
StartLoopPast ==
    /\ Running /\ Cur = "START_LOOP"
    /\ IF IsZero(Cell)
       THEN IF skip_loop(ip, token_stream) = -1
            THEN pc' = "crash" /\ UNCHANGED <<ip, loop_stack>>
            ELSE /\ ip' = skip_loop(ip, token_stream) + 2
                 /\ UNCHANGED <<pc, loop_stack>>
       ELSE /\ loop_stack' = Append(loop_stack, ip)
            /\ ip' = ip + 1
            /\ UNCHANGED pc
    /\ UNCHANGED <<lexvars, token_stream, memory_state, print_as_nums, ptr, line, out, dec_count, path, runs>>

\* Mutant: the index is pushed before the test of the cell.
StartLoopPushFirst ==
    /\ Running /\ Cur = "START_LOOP"
    /\ loop_stack' = Append(loop_stack, ip)
    /\ IF IsZero(Cell)
       THEN IF skip_loop(ip, token_stream) = -1
            THEN pc' = "crash" /\ UNCHANGED ip
            ELSE ip' = skip_loop(ip, token_stream) + 1 /\ UNCHANGED pc
       ELSE ip' = ip + 1 /\ UNCHANGED pc
    /\ UNCHANGED <<lexvars, token_stream, memory_state, print_as_nums, ptr, line, out, dec_count, path, runs>>

StartLoop ==
    /\ Running /\ Cur = "START_LOOP"
    /\ IF IsZero(Cell)
       THEN IF skip_loop(ip, token_stream) = -1
            THEN pc' = "crash" /\ UNCHANGED <<ip, loop_stack>>
            ELSE /\ ip' = skip_loop(ip, token_stream) + 1
                 /\ UNCHANGED <<pc, loop_stack>>
       ELSE /\ loop_stack' = Append(loop_stack, ip)
            /\ ip' = ip + 1
            /\ UNCHANGED pc
    /\ UNCHANGED <<lexvars, token_stream, memory_state, print_as_nums, ptr, line, out, dec_count, path, runs>>

\* Mutant: the jump back lands on the START_LOOP itself, which runs again.
EndLoopReenter ==
    /\ Running /\ Cur = "END_LOOP"
    /\ IF loop_stack = <<>>
       THEN pc' = "crash" /\ UNCHANGED <<ip, loop_stack>>
       ELSE IF IsZero(Cell)
            THEN /\ loop_stack' = Front(loop_stack)
                 /\ ip' = ip + 1
                 /\ UNCHANGED pc
            ELSE /\ ip' = Last(loop_stack)
                 /\ UNCHANGED <<pc, loop_stack>>
    /\ UNCHANGED <<lexvars, token_stream, memory_state, print_as_nums, ptr, line, out, dec_count, path, runs>>

\* pop() and [-1] of an empty loop_stack raise IndexError.
\* Mutant: the jump back pops the entry it jumps to.
EndLoopPopOnJump ==
    /\ Running /\ Cur = "END_LOOP"
    /\ IF loop_stack = <<>>
       THEN pc' = "crash" /\ UNCHANGED <<ip, loop_stack>>
       ELSE /\ loop_stack' = Front(loop_stack)
            /\ ip' = IF IsZero(Cell) THEN ip + 1 ELSE Last(loop_stack) + 1
            /\ UNCHANGED pc
    /\ UNCHANGED <<lexvars, token_stream, memory_state, print_as_nums, ptr, line, out, dec_count, path, runs>>

EndLoop ==
    /\ Running /\ Cur = "END_LOOP"
    /\ IF loop_stack = <<>>
       THEN pc' = "crash" /\ UNCHANGED <<ip, loop_stack>>
       ELSE IF IsZero(Cell)
            THEN /\ loop_stack' = Front(loop_stack)
                 /\ ip' = ip + 1
                 /\ UNCHANGED pc
            ELSE /\ ip' = Last(loop_stack) + 1
                 /\ UNCHANGED <<pc, loop_stack>>
    /\ UNCHANGED <<lexvars, token_stream, memory_state, print_as_nums, ptr, line, out, dec_count, path, runs>>

\* Mutant: the completion notice is missing.
FinishSilent ==
    /\ pc = "exec" /\ ip >= instruction_length
    /\ pc' = "done"
    /\ UNCHANGED <<lexvars, exevars, out, dec_count, path, runs>>

\* The while loop ends: print("\nDone!")
Finish ==
    /\ pc = "exec" /\ ip >= instruction_length
    /\ out' = Append(out, Notice("done"))
    /\ pc' = "done"
    /\ UNCHANGED <<lexvars, exevars, dec_count, path, runs>>

\* Mutant: nothing catches KeyboardInterrupt.
InterruptUncaught ==
    /\ pc = "exec"
    /\ pc' = "crash"
    /\ UNCHANGED <<lexvars, exevars, out, dec_count, path, runs>>

\* main: except KeyboardInterrupt: print("Interrupted")
Interrupt ==
    /\ pc = "exec"
    /\ out' = Append(out, Notice("interrupted"))
    /\ pc' = "interrupted"
    /\ UNCHANGED <<lexvars, exevars, dec_count, path, runs>>

Next ==
    \/ LexSkip \/ LexOpen \/ LexClose \/ LexCloseError \/ LexOther
    \/ LexEndError \/ LexReturn \/ MainLexError
    \/ ShiftLeft \/ ShiftRight \/ Increment \/ Decrement \/ Out
    \/ InRead \/ InEOF \/ InStore \/ InInvalid \/ StartLoop \/ EndLoop
    \/ Finish \/ Interrupt

Spec == Init /\ [][Next]_vars

\* --------------------------------------------- the loop-repeat scenario
\* The script is k '+' followed by "[-]", run on a tape of one cell, with no
\* input and no interrupt.  The interpreter is one thread that runs until it
\* ends, hence the fairness.
RepeatSource(k) ==
    [i \in 1 .. k + 3 |->
        IF i <= k THEN "+" ELSE IF i = k + 1 THEN "[" ELSE IF i = k + 2 THEN "-" ELSE "]"]

InitRepeat == \E k \in 0 .. CellMod - 1 : MainInit(RepeatSource(k))

NextRepeat ==
    \/ LexOpen \/ LexClose \/ LexOther \/ LexReturnOneCell
    \/ Increment \/ DecrementCounted \/ StartLoop \/ EndLoop \/ Finish

SpecRepeat == InitRepeat /\ [][NextRepeat]_vars /\ WF_vars(NextRepeat)

\* ------------------------------------------------- nested loops
\* Scripts of '+', '-', '[' and ']' alone, long enough for a loop entered
\* inside a loop that was entered, run on a tape of one cell.
MaxLoopLen == 6

LoopSources == SeqsUpTo({"+", "-", "[", "]"}, MaxLoopLen)

InitLoops == \E src \in LoopSources : MainInit(src)

NextLoops ==
    \/ LexOpen \/ LexClose \/ LexCloseError \/ LexOther \/ LexEndError
    \/ LexReturnOneCell \/ MainLexError
    \/ Increment \/ Decrement \/ StartLoop \/ EndLoop \/ Finish

SpecLoops == InitLoops /\ [][NextLoops]_vars

\* ------------------------------------------- one script in both modes
\* A script with no ',' is run in one mode and then, from a fresh tape of the
\* same length, in the other.  The observer runs keeps, for each of the two
\* runs, the states parse_and_execute was in at its while test, up to
\* MaxTrace of them; a run is followed until it ends, until that many states
\* are kept, or until MaxOut emissions are made.
MaxTrace == 8

ModeSources == SeqsUpTo(DOMAIN ALLOWED_CHARS \ {","}, MaxSrcLen)

Snapshot ==
    [ip      |-> ip,
     ptr     |-> ptr,
     tape    |-> memory_state,
     stack   |-> loop_stack,
     emitted |-> [i \in 1 .. Len(out) |-> out[i].cell]]

Recorded ==
    /\ runs # <<>>
    /\ Last(runs).states # <<>>
    /\ Last(Last(runs).states) = Snapshot

CanStep == Recorded /\ Len(Last(runs).states) < MaxTrace

Observe ==
    /\ pc = "exec" /\ ~Recorded
    /\ IF runs = <<>>
       THEN runs' = <<[nums |-> print_as_nums, states |-> <<Snapshot>>]>>
       ELSE /\ Len(Last(runs).states) < MaxTrace
            /\ runs' = [runs EXCEPT ![Len(runs)].states = Append(@, Snapshot)]
    /\ UNCHANGED <<pc, lexvars, exevars, out, dec_count, path>>

RunOver ==
    \/ pc = "done"
    \/ pc = "exec" /\ Recorded /\ Len(Last(runs).states) = MaxTrace
    \/ Running /\ Recorded /\ Cur = "OUT" /\ Len(out) >= MaxOut

\* main once more on the same script and tape length, with the other value
\* of --nums.
Rerun ==
    /\ Len(runs) = 1 /\ RunOver
    /\ memory_state' = [i \in 1 .. mem_size |-> PyInt(0)]
    /\ print_as_nums' = ~print_as_nums
    /\ ptr' = 0 /\ loop_stack' = <<>> /\ ip' = 0
    /\ out' = <<>>
    /\ pc' = "exec"
    /\ runs' = Append(runs, [nums |-> ~print_as_nums, states |-> <<>>])
    /\ UNCHANGED <<lexvars, token_stream, line, dec_count, path>>

InitModes == \E src \in ModeSources : MainInit(src)

NextModes ==
    \/ LexOpen \/ LexClose \/ LexCloseError \/ LexOther \/ LexEndError
    \/ LexReturn \/ MainLexError
    \/ Observe \/ Rerun
    \/ CanStep /\ ShiftLeft
    \/ CanStep /\ ShiftRight
    \/ CanStep /\ Increment
    \/ CanStep /\ Decrement
    \/ CanStep /\ Out
    \/ CanStep /\ StartLoop
    \/ CanStep /\ EndLoop
    \/ Recorded /\ Finish

SpecModes == InitModes /\ [][NextModes]_vars

\* ------------------------------------------------- main before the lexer
\* main after parse_args: path = results.script.
Paths == [isfile : BOOLEAN, bf : BOOLEAN]

MainStart(p) ==
    /\ pc = "main"
    /\ path = p
    /\ raw = <<>>
    /\ idx = 0
    /\ line_no = 0
    /\ open_bracket_stack = <<>>
    /\ program = <<>>
    /\ lex_err = NoError
    /\ token_stream = <<>>
    /\ memory_state = <<>>
    /\ print_as_nums = FALSE
    /\ ptr = 0
    /\ loop_stack = <<>>
    /\ ip = 0
    /\ line = <<>>
    /\ out = <<>>
    /\ dec_count = 0
    /\ runs = <<>>

\* if not os.path.isfile(path) or path.split("/")[-1][-3:] != '.bf':
\*     print("Invalid path or file given.")
\* with open(path, 'r') as f: raw_text = f.read()
\* The if has no return, so open follows in every case; it raises (uncaught)
\* when the path is not a file, and else the text goes to lex.
MainOpen ==
    /\ pc = "main"
    /\ out' = IF ~path.isfile \/ ~path.bf
              THEN Append(out, Notice("invalid_path"))
              ELSE out
    /\ IF path.isfile
       THEN \E src \in Sources : raw' = src /\ pc' = "lex"
       ELSE raw' = raw /\ pc' = "crash"
    /\ UNCHANGED <<idx, line_no, open_bracket_stack, program, lex_err, exevars,
                   dec_count, path, runs>>

InitPath == \E p \in Paths : MainStart(p)

NextPath == MainOpen \/ Next

SpecPath == InitPath /\ [][NextPath]_vars

\* ============================================================== claims
\* The definitions below state the claims; they are written from the
\* specification's wording and use no operator of the model above except
\* the state variables and the data constructors.

IsByte(v) == v.ty = "int" /\ v.n \in 0 .. 255

\* C1: in every reachable state every tape cell holds an integer in [0,255],
\* and no step changes the length of the tape.
C1_ByteTape ==
    /\ [](\A i \in 1 .. Len(memory_state) : IsByte(memory_state[i]))
    /\ [][Len(memory_state') = Len(memory_state)]_vars

\* The number a text of decimal digits denotes.
RECURSIVE DecimalValue(_)
DecimalValue(s) ==
    IF s = <<>> THEN 0 ELSE 10 * DecimalValue(Front(s)) + (Last(s) - 48)

IsDecimal(s) == Len(s) >= 1 /\ \A i \in 1 .. Len(s) : s[i] \in 48 .. 57

\* The line s gives the IN instruction a valid cell value: one character in
\* character mode, the decimal text of a byte in numeric mode.
ValidInput(nums, s) ==
    IF nums THEN IsDecimal(s) /\ DecimalValue(s) \in 0 .. 255
    ELSE Len(s) = 1

\* C2: when the line read by an IN instruction gives no valid cell value, in
\* either mode, the step that handles it prints the diagnostic and ends the
\* run with status 1, leaving the tape and ip as they were; a run ended
\* that way never prints the completion notice.
C2_InvalidInputIsFatal ==
    /\ [][(pc = "in_read" /\ ~ValidInput(print_as_nums, line)) =>
              /\ pc' = "exit1"
              /\ memory_state' = memory_state /\ ip' = ip
              /\ out' = Append(out, Notice("invalid_char"))]_vars
    /\ [](pc = "exit1" => \A i \in 1 .. Len(out) : out[i].kind # "done")

\* ------------------------------------------------- the lexer's claims
Recognized == {"<", ">", "+", "-", ".", ",", "[", "]"}

\* The fixed table of the specification.
TokenOf(c) ==
    CASE c = "<" -> "SHIFT_LEFT"
      [] c = ">" -> "SHIFT_RIGHT"
      [] c = "+" -> "INCREMENT"
      [] c = "-" -> "DECREMENT"
      [] c = "." -> "OUT"
      [] c = "," -> "IN"
      [] c = "[" -> "START_LOOP"
      [] c = "]" -> "END_LOOP"

IsRecognized(c) == c \in Recognized

\* The recognized characters of s, in order, each mapped by the table.
Tokens(s) ==
    LET kept == SelectSeq(s, IsRecognized)
    IN  [i \in 1 .. Len(kept) |-> TokenOf(kept[i])]

\* How many of the elements of s at offsets from .. to - 1 equal c.
CountIn(s, c, from, to) == Cardinality({i \in from .. to - 1 : At(s, i) = c})

\* The element at offset j closes a bracket that was never opened.
Premature(s, open, close, j) ==
    /\ At(s, j) = close
    /\ CountIn(s, close, 0, j + 1) > CountIn(s, open, 0, j + 1)

HasPremature(s, open, close) == \E j \in 0 .. Len(s) - 1 : Premature(s, open, close, j)

FirstPremature(s, open, close) ==
    CHOOSE j \in 0 .. Len(s) - 1 :
        /\ Premature(s, open, close, j)
        /\ \A k \in 0 .. j - 1 : ~Premature(s, open, close, k)

BalancedSeq(s, open, close) ==
    /\ ~HasPremature(s, open, close)
    /\ CountIn(s, open, 0, Len(s)) = CountIn(s, close, 0, Len(s))

Balanced(s) == BalancedSeq(s, "[", "]")
BalancedTokens(ts) == BalancedSeq(ts, "START_LOOP", "END_LOOP")

\* The offsets of the '[' of s that no later ']' closes.
UnmatchedOpens(s) ==
    {i \in 0 .. Len(s) - 1 :
        /\ At(s, i) = "["
        /\ ~\E j \in i + 1 .. Len(s) - 1 :
               /\ At(s, j) = "]"
               /\ CountIn(s, "[", i, j + 1) = CountIn(s, "]", i, j + 1)}

Newlines(s, j) == CountIn(s, "\n", 0, j)

LexRunning == pc = "lex"
LexFailed == pc \in {"lex_error", "exit1"} /\ lex_err # NoError
LexReturned == pc \notin {"lex", "lex_error"} /\ lex_err = NoError
LexReturns == pc = "lex" /\ pc' = "exec"
LexRaises == pc = "lex" /\ pc' = "lex_error"

\* C3: for a source text with balanced brackets, lex returns exactly the
\* recognized characters of the text, in order, each mapped to its token by
\* the fixed table (so as many tokens as recognized characters); while it
\* scans, the list it builds is that of the prefix scanned, and it never
\* fails.
C3_LexMapsRecognized ==
    /\ []((LexRunning /\ Balanced(raw)) => program = Tokens(SubSeq(raw, 1, idx)))
    /\ [][(LexRunning /\ Balanced(raw)) => ~LexRaises]_vars
    /\ [][(LexReturns /\ Balanced(raw)) =>
              /\ token_stream' = Tokens(raw)
              /\ Len(token_stream')
                    = Cardinality({i \in 1 .. Len(raw) : raw[i] \in Recognized})]_vars

\* lex has scanned a balanced text of four characters, one of them ignored.
C3_Witness ==
    /\ pc = "lex" /\ idx = Len(raw) /\ open_bracket_stack = <<>>
    /\ Len(raw) = 4 /\ "x" \in {raw[i] : i \in 1 .. Len(raw)}
    /\ Len(program) = 3 /\ program[1] = "START_LOOP"

\* C4: lex fails if and only if the brackets of the source are unbalanced;
\* when it fails main gets no token stream and the executor never starts;
\* when it returns, the stream is bracket-balanced.
C4_LexFailsIffUnbalanced ==
    /\ [][LexRaises => ~Balanced(raw)]_vars
    /\ [][LexReturns => Balanced(raw)]_vars
    /\ [](lex_err # NoError =>
              /\ LexFailed /\ ~Balanced(raw)
              /\ token_stream = <<>> /\ memory_state = <<>> /\ ip = 0)
    /\ [](LexReturned => BalancedTokens(token_stream))

C4_Witness ==
    /\ pc = "exit1" /\ lex_err.kind = "open"
    /\ Len(program) >= 2 /\ token_stream = <<>>

\* C5: when a ']' occurs while no '[' is open, lex fails at the first such
\* ']' and scans no further; the error names the line (the newlines before
\* the ']') and the column (its offset in the whole text).
C5_PrematureCloseReported ==
    HasPremature(raw, "[", "]") =>
        LET j == FirstPremature(raw, "[", "]")
        IN  /\ idx <= j
            /\ (LexRunning /\ idx = j) => open_bracket_stack = <<>>
            /\ ~LexRunning =>
                  /\ LexFailed /\ idx = j
                  /\ lex_err = [kind |-> "close", at |-> << <<Newlines(raw, j), j>> >>]

C5_Witness ==
    /\ pc = "lex_error" /\ lex_err.kind = "close"
    /\ lex_err.at = << <<1, 2>> >> /\ Len(raw) = 4

\* C6: with no premature ']' and some '[' never closed, lex fails after the
\* whole text was scanned, and the error names the (line, offset) of exactly
\* the unmatched '[': all of them and no matched one.
C6_UnclosedOpensReported ==
    (~HasPremature(raw, "[", "]") /\ UnmatchedOpens(raw) # {}) =>
        /\ LexRunning => lex_err = NoError
        /\ ~LexRunning =>
              /\ LexFailed /\ idx = Len(raw)
              /\ lex_err.kind = "open"
              /\ {lex_err.at[i] : i \in DOMAIN lex_err.at}
                    = {<<Newlines(raw, i), i>> : i \in UnmatchedOpens(raw)}

C6_Witness ==
    /\ pc = "lex_error" /\ lex_err.kind = "open"
    /\ lex_err.at = << <<0, 0>>, <<1, 3>> >>

\* --------------------------------------------- the executor's claims
\* This step executes the instruction tok at ip (an interrupt delivered in
\* the same state is no execution of it).
Executes(tok) == Running /\ Cur = tok /\ pc' # "interrupted"

\* C7: on a cell holding v in [0,255], INCREMENT stores (v+1) mod 256 and
\* DECREMENT stores (v-1) mod 256 (0 after 255, 255 before 0), and the run
\* goes on: neither raises.
C7_CellArithmeticWraps ==
    /\ [][(Executes("INCREMENT") /\ IsByte(Cell)) =>
              /\ pc' = "exec"
              /\ At(memory_state', ptr) = PyInt(IF Cell.n = 255 THEN 0 ELSE Cell.n + 1)]_vars
    /\ [][(Executes("DECREMENT") /\ IsByte(Cell)) =>
              /\ pc' = "exec"
              /\ At(memory_state', ptr) = PyInt(IF Cell.n = 0 THEN 255 ELSE Cell.n - 1)]_vars

\* "-+" has run: 0 became 255, and 255 became 0.
C7_Witness ==
    /\ pc = "exec" /\ token_stream = <<"DECREMENT", "INCREMENT">>
    /\ ip = 2 /\ Cell = PyInt(0)

\* C8: on a tape of N >= 1 cells, 0 <= ptr < N always; SHIFT_LEFT at 0 gives
\* N-1, SHIFT_RIGHT at N-1 gives 0, otherwise the pointer moves by one, and
\* the step raises nothing.
C8_PointerWraps ==
    /\ [](memory_state # <<>> => ptr \in 0 .. Len(memory_state) - 1)
    /\ [][(Executes("SHIFT_LEFT")) =>
              /\ pc' = "exec"
              /\ ptr' = IF ptr = 0 THEN Len(memory_state) - 1 ELSE ptr - 1]_vars
    /\ [][(Executes("SHIFT_RIGHT")) =>
              /\ pc' = "exec"
              /\ ptr' = IF ptr = Len(memory_state) - 1 THEN 0 ELSE ptr + 1]_vars

\* "<>" has run on two cells: 0 became 1 = N-1, and N-1 became 0.
C8_Witness ==
    /\ pc = "exec" /\ Len(token_stream) >= 2
    /\ token_stream[1] = "SHIFT_LEFT" /\ token_stream[2] = "SHIFT_RIGHT"
    /\ ip = 2 /\ Len(memory_state) = 2 /\ ptr = 0

\* The END_LOOP that closes the START_LOOP at offset i of ts.
MatchingEnd(ts, i) ==
    CHOOSE j \in i + 1 .. Len(ts) - 1 :
        /\ At(ts, j) = "END_LOOP"
        /\ CountIn(ts, "START_LOOP", i, j + 1) = CountIn(ts, "END_LOOP", i, j + 1)
        /\ \A k \in i + 1 .. j - 1 :
              CountIn(ts, "START_LOOP", i, k + 1) # CountIn(ts, "END_LOOP", i, k + 1)

\* C9: a START_LOOP executed on a cell equal to 0 leaves the tape, the
\* pointer, the loop-entry stack and the output as they are and continues
\* right after its matching END_LOOP, so nothing of the body runs; "[-]" on a
\* zero tape never modifies it.
C9_LoopSkip ==
    /\ [][(Executes("START_LOOP") /\ Cell = PyInt(0)) =>
              /\ pc' = "exec"
              /\ ip' = MatchingEnd(token_stream, ip) + 1
              /\ UNCHANGED <<memory_state, ptr, loop_stack, out>>]_vars
    /\ [](token_stream = <<"START_LOOP", "DECREMENT", "END_LOOP">> =>
              /\ ip \in {0, 3}
              /\ \A i \in 1 .. Len(memory_state) : memory_state[i] = PyInt(0))

\* "[[]]" was skipped, nested loop included.
C9_Witness ==
    /\ pc = "exec" /\ ip = 4 /\ loop_stack = <<>>
    /\ token_stream = <<"START_LOOP", "START_LOOP", "END_LOOP", "END_LOOP">>

\* C10: for every k in 0..255, k INCREMENTs followed by "[-]" on one zero
\* cell terminate, having executed the DECREMENT exactly k times, with the
\* cell at 0 and the loop-entry stack empty; and the instruction after an
\* END_LOOP is only reached with the current cell at 0.
C10_LoopRepeat ==
    /\ <>(pc = "done")
    /\ [](pc = "done" =>
              /\ dec_count = Len(token_stream) - 3
              /\ Cell = PyInt(0)
              /\ loop_stack = <<>>)
    /\ []((pc = "exec" /\ ip > 0 /\ At(token_stream, ip - 1) = "END_LOOP") =>
              Cell = PyInt(0))

C10_Witness ==
    /\ pc = "done" /\ Len(token_stream) = 258 /\ dec_count = 255

\* ------------------------------------------------- the claims on main
Kinds(o) == {o[i].kind : i \in 1 .. Len(o)}
Terminal == pc \in {"done", "exit1", "crash", "interrupted"}

\* C11: when lex raises, main prints the message and exits with status 1,
\* and parse_and_execute is never entered: its token stream and tape are
\* never bound, no instruction runs (ip, ptr and the stack stay as they
\* were), and nothing but the error message is printed.
C11_LexErrorAborts ==
    /\ [](lex_err # NoError =>
              /\ pc \in {"lex_error", "exit1"}
              /\ token_stream = <<>> /\ memory_state = <<>>
              /\ ip = 0 /\ ptr = 0 /\ loop_stack = <<>>
              /\ out = (IF pc = "exit1" THEN <<Notice("lex_error")>> ELSE <<>>))
    /\ [][pc = "lex_error" => pc' = "exit1"]_vars
    /\ [][pc = "exit1" => FALSE]_vars

C11_Witness ==
    /\ pc = "exit1" /\ lex_err.kind = "close" /\ Len(program) = 3
    /\ out = <<Notice("lex_error")>>

\* C12: the completion notice is printed at most once, as the last thing
\* printed, exactly in the runs that end normally (ip at the end of the
\* stream); a run ended by a fatal input error, an interrupt or a fault never
\* prints it.
C12_CompletionNotice ==
    /\ [](pc = "done" <=> "done" \in Kinds(out))
    /\ []("done" \in Kinds(out) =>
              /\ out[Len(out)].kind = "done"
              /\ \A i \in 1 .. Len(out) - 1 : out[i].kind \in {"chr", "print"}
              /\ ip = Len(token_stream))
    /\ [][pc = "done" => FALSE]_vars

\* "++." in character mode: the character of code 2, then the notice.
C12_Witness ==
    /\ pc = "done" /\ ~print_as_nums
    /\ token_stream = <<"INCREMENT", "INCREMENT", "OUT">>
    /\ out = <<Emit("chr", PyInt(2)), Notice("done")>>

\* C14: wherever the executor is, also at an IN instruction waiting for its
\* line, an interrupt can be delivered and is caught: the step prints the
\* message and stops the run, changing nothing else; no instruction and no
\* completion notice follows, and the run does not end as a fault or with
\* status 1.
C14_InterruptCaught ==
    /\ [](pc = "exec" => ENABLED (Next /\ pc' = "interrupted"))
    /\ [][pc' = "interrupted" =>
              /\ pc = "exec"
              /\ out' = Append(out, Notice("interrupted"))
              /\ UNCHANGED <<token_stream, memory_state, ptr, loop_stack, ip>>]_vars
    /\ [](pc = "interrupted" => "done" \notin Kinds(out))
    /\ [][pc = "interrupted" => FALSE]_vars

\* Interrupted while waiting at an IN instruction, after an emission.
C14_Witness ==
    /\ pc = "interrupted" /\ ip = 1 /\ token_stream = <<"OUT", "IN">>
    /\ Len(out) = 2 /\ out[2] = Notice("interrupted")

\* --------------------------------------------- the claims on the loops
\* The scan of the specification: a depth counter seeded at 1, +1 per
\* START_LOOP, -1 per END_LOOP, stopping where the depth reaches 0; -1 when
\* the scan would read past the end of the stream.
RECURSIVE DepthScan(_, _, _)
DepthScan(j, depth, ts) ==
    IF j + 1 >= Len(ts) THEN -1
    ELSE LET tok == At(ts, j + 1)
             d   == CASE tok = "START_LOOP" -> depth + 1
                      [] tok = "END_LOOP"   -> depth - 1
                      [] OTHER              -> depth
         IN  IF d = 0 THEN j + 1 ELSE DepthScan(j + 1, d, ts)

find_matching_end(i, ts) == DepthScan(i, 1, ts)

LoopStarts(ts) == {i \in 0 .. Len(ts) - 1 : At(ts, i) = "START_LOOP"}

\* C16: on every token stream lex returns and at every START_LOOP of it,
\* skip_loop returns what the depth-counter scan returns, which is the index
\* of the matching END_LOOP, without reading past the end of the stream; and
\* a skipped loop continues right after that index.
C16_SkipLoopIsDepthScan ==
    /\ [](\A i \in LoopStarts(token_stream) :
              /\ skip_loop(i, token_stream) = find_matching_end(i, token_stream)
              /\ skip_loop(i, token_stream) = MatchingEnd(token_stream, i)
              /\ skip_loop(i, token_stream) \in i + 1 .. Len(token_stream) - 1)
    /\ [][Executes("START_LOOP") /\ IsZero(Cell) =>
              ip' = find_matching_end(ip, token_stream) + 1]_vars

\* "[[]]" run to its end: the outer loop was skipped over the inner one.
C16_Witness ==
    /\ pc = "done"
    /\ token_stream = <<"START_LOOP", "START_LOOP", "END_LOOP", "END_LOOP">>
    /\ skip_loop(0, token_stream) = 3 /\ skip_loop(1, token_stream) = 2

\* C18: while the executor runs, 0 <= ip <= len(token_stream); a token is
\* read only at ip < len(token_stream), also by skip_loop; and the executor
\* stops normally exactly when ip = len(token_stream).
C18_IpInRange ==
    /\ [](pc \in {"exec", "in_read"} => ip \in 0 .. Len(token_stream))
    /\ [](pc = "in_read" => ip < Len(token_stream))
    /\ [](pc = "done" => ip = Len(token_stream))
    /\ [][Executes("START_LOOP") =>
              pc' = "exec" /\ ip' \in ip + 1 .. Len(token_stream)]_vars
    /\ [][Executes("END_LOOP") =>
              pc' = "exec" /\ ip' \in 1 .. Len(token_stream)]_vars
    /\ [][(pc = "exec" /\ pc' = "done") <=>
              (pc = "exec" /\ ip = Len(token_stream) /\ pc' # "interrupted")]_vars

\* "[++]" on a zero cell: the skip jump lands on the end of the stream.
C18_Witness ==
    /\ pc = "done" /\ ip = 4
    /\ token_stream = <<"START_LOOP", "INCREMENT", "INCREMENT", "END_LOOP">>
    /\ memory_state[1] = PyInt(0)

\* ------------------------------------------------ the frame conditions
OtherCellsKept ==
    /\ Len(memory_state') = Len(memory_state)
    /\ \A k \in 1 .. Len(memory_state) :
           k # ptr + 1 => memory_state'[k] = memory_state[k]

InExecutor == pc \in {"exec", "in_read"}

\* C20: SHIFT_LEFT, SHIFT_RIGHT, OUT, START_LOOP and END_LOOP leave the tape
\* as it is; INCREMENT, DECREMENT and IN change no cell but the one at ptr and
\* leave ptr as it is; only START_LOOP and END_LOOP change loop_stack; and no
\* step of the executor changes token_stream or the length of the tape.
C20_Frames ==
    /\ [][\A tok \in {"SHIFT_LEFT", "SHIFT_RIGHT", "OUT", "START_LOOP", "END_LOOP"} :
              Executes(tok) => memory_state' = memory_state]_vars
    /\ [][(\E tok \in {"INCREMENT", "DECREMENT", "IN"} : Executes(tok)) \/ pc = "in_read" =>
              OtherCellsKept /\ ptr' = ptr]_vars
    /\ [][InExecutor /\ ~(Executes("START_LOOP") \/ Executes("END_LOOP")) =>
              loop_stack' = loop_stack]_vars
    /\ [][InExecutor =>
              /\ token_stream' = token_stream
              /\ Len(memory_state') = Len(memory_state)]_vars

\* ">," has stored its input in the second cell and left the first alone.
C20_Witness ==
    /\ pc = "exec" /\ ip = 2 /\ ptr = 1
    /\ token_stream = <<"SHIFT_RIGHT", "IN">>
    /\ memory_state = <<PyInt(0), PyInt(49)>>

\* ------------------------------------------------ the claim on the path
\* C15: when the script path is not an existing file or does not end in
\* ".bf", main reports the invalid path and goes no further: the file is not
\* read, lex is not called, parse_and_execute is not called.
C15_InvalidPathStops ==
    ~(path.isfile /\ path.bf) /\ pc # "main" =>
        /\ out = <<Notice("invalid_path")>>
        /\ pc \notin {"lex", "lex_error", "exec", "in_read", "done"}
        /\ raw = <<>> /\ token_stream = <<>>

\* ------------------------------------------- the claims on loop_stack
\* The START_LOOP that the END_LOOP at j closes.
MatchingStart(ts, j) ==
    CHOOSE i \in LoopStarts(ts) : i < j /\ MatchingEnd(ts, i) = j

Enclosing(ts, k) == {i \in LoopStarts(ts) : i < k /\ k <= MatchingEnd(ts, i)}

\* The deepest nesting of brackets in ts.
MaxNesting(ts) ==
    LET depth(k) == CountIn(ts, "START_LOOP", 0, k) - CountIn(ts, "END_LOOP", 0, k)
    IN  CHOOSE d \in 0 .. Len(ts) :
            /\ \E k \in 0 .. Len(ts) : depth(k) = d
            /\ \A k \in 0 .. Len(ts) : depth(k) <= d

\* C19: at the start of each step of the executor loop_stack holds exactly
\* the indices of the START_LOOP tokens whose loops enclose ip, outermost
\* first and each once; so it is never deeper than the nesting of the
\* brackets, it is not empty at an END_LOOP and its top there is the matching
\* START_LOOP, and it is empty when the run ends normally.
C19_LoopStack ==
    /\ InExecutor =>
           /\ {loop_stack[k] : k \in 1 .. Len(loop_stack)} = Enclosing(token_stream, ip)
           /\ \A k \in 1 .. Len(loop_stack) - 1 : loop_stack[k] < loop_stack[k + 1]
           /\ Len(loop_stack) <= MaxNesting(token_stream)
    /\ Running /\ Cur = "END_LOOP" =>
           /\ loop_stack # <<>>
           /\ Last(loop_stack) = MatchingStart(token_stream, ip)
    /\ pc = "done" => loop_stack = <<>>

\* "+[[]]" inside the inner loop: both loops were entered.
C19_Witness ==
    /\ pc = "exec" /\ ip = 3 /\ loop_stack = <<1, 2>>
    /\ token_stream = <<"INCREMENT", "START_LOOP", "START_LOOP", "END_LOOP", "END_LOOP">>

\* ------------------------------------------- the claim on the two modes
\* C13: a script with no ',' passes through the same sequence of
\* (ip, ptr, tape, loop_stack) states and emits the same sequence of cell
\* values in character mode and in numeric mode, from the same initial tape;
\* the mode decides only how each emitted value is printed, chr(cell) or
\* the cell itself.
C13_ModesAgree ==
    /\ \A i \in 1 .. Len(out) :
           out[i].kind \in {"chr", "print"} =>
               out[i].kind = (IF print_as_nums THEN "print" ELSE "chr")
    /\ Len(runs) = 2 =>
           /\ runs[1].nums # runs[2].nums
           /\ runs[2].nums = print_as_nums
           /\ Len(runs[2].states) <= Len(runs[1].states)
           /\ \A k \in 1 .. Len(runs[2].states) :
                  runs[2].states[k] = runs[1].states[k]
           /\ RunOver => Len(runs[2].states) = Len(runs[1].states)

\* "++." in character mode, then in numeric mode: code 2, then "2".
C13_Witness ==
    /\ pc = "done" /\ Len(runs) = 2 /\ ~runs[1].nums
    /\ token_stream = <<"INCREMENT", "INCREMENT", "OUT">>
    /\ Len(runs[1].states) = 4 /\ runs[1].states[4].emitted = <<PyInt(2)>>
    /\ out = <<Emit("print", PyInt(2)), Notice("done")>>

====
